---------------------------- MODULE Spec2Model ----------------------------
(***************************************************************************)
(* A model of pvr.py, the PVR texture decoder of DragonRiders.             *)
(*                                                                         *)
(* main (file) reads the optional GBIX block, the PVRT tag and the header, *)
(* calls pvr_decode, and hands what it returns to png.from_array.          *)
(* pvr_decode dispatches on the pixel encoding and the layout to           *)
(* morton_decode, vq_decode or linear_decode, each of which reads the      *)
(* trailing (largest) mipmap of the payload.                               *)
(*                                                                         *)
(* Specifications:                                                         *)
(*   Spec        main (file), from the bytes of a file to the png sink     *)
(*   SpecMorton  morton (x, y)                                             *)
(*   SpecUnpack  unpack1555 / unpack4444 / unpack565 (colour)              *)
(*   SpecVQ      vq_decode (raw, decoder) for a width and a height         *)
(*   SpecTiled   morton_decode and linear_decode on two payloads           *)
(***************************************************************************)
EXTENDS Integers, Sequences, FiniteSets, TLC

VARIABLES
    pc,        \* position in main, or "call"/"return" of the function run on its own
    file,      \* main: the bytes of the file
    pos,       \* main: the file position of f
    magic,     \* main: the bytes f.read (4) returned at line 229
    tag,       \* main: the bytes f.read (4) returned at line 234
    header,    \* main: <<size, px, fmt, dummy, width, height>> once unpacked (line 238)
    data,      \* main: the payload f.read () returned (line 241)
    decoded,   \* main: <<pixels, status>> once pvr_decode has returned
    sink,      \* the (pixels, status) pairs png.from_array received
    outcome,   \* how main ended: "running", "png called" (line 242 reached; what the
               \* png library does is outside pvr.py), "not PVRT" or an exception's name
    mx, my, code,          \* morton: its arguments and its result (a bit vector)
    colour, rgba,          \* unpackXXXX: its argument and its result
    width, height,         \* the width and height a decoder closes over
    raw, raw2, decoder,    \* a decoder's payloads and its colour decoder
    out, out2              \* a decoder's results on raw and on raw2

mainVars   == <<file, pos, magic, tag, header, data, decoded, sink, outcome>>
mortonVars == <<mx, my, code>>
unpackVars == <<colour, rgba>>
decVars    == <<width, height, raw, raw2, decoder, out, out2>>
vars       == <<pc, mainVars, mortonVars, unpackVars, decVars>>

None == "None"

(***************************************************************************)
(* Python integers are unbounded.  morton's values reach 2^32 - 1, so they *)
(* are modelled as vectors of W bits, bit 0 the least significant; with    *)
(* arguments below 2^16 no shift in morton moves a bit beyond bit W - 1.   *)
(***************************************************************************)
W == 32

Bits(n) == [k \in 0..(W - 1) |-> IF k <= 30 THEN (n \div (2 ^ k)) % 2 ELSE 0]

RECURSIVE NatOf(_, _)
NatOf(b, k) == IF k < 0 THEN 0 ELSE b[k] * (2 ^ k) + NatOf(b, k - 1)

\* The number a bit vector stands for, when it is below 2^31.
ToNat(b) == NatOf(b, 30)

BitOr(a, b)  == [k \in 0..(W - 1) |-> IF a[k] = 1 \/ b[k] = 1 THEN 1 ELSE 0]
BitAnd(a, b) == [k \in 0..(W - 1) |-> IF a[k] = 1 /\ b[k] = 1 THEN 1 ELSE 0]
Shl(a, n)    == [k \in 0..(W - 1) |-> IF k >= n THEN a[k - n] ELSE 0]

Mask8 == Bits(16711935)     \* 0x00ff00ff
Mask4 == Bits(252645135)    \* 0x0f0f0f0f
Mask2 == Bits(858993459)    \* 0x33333333
Mask1 == Bits(1431655765)   \* 0x55555555

\* One argument of morton spread over the even bits (lines 83, 85, 87, 89).
Spread(v) ==
    LET v8 == BitAnd(BitOr(v,  Shl(v,  8)), Mask8)
        v4 == BitAnd(BitOr(v8, Shl(v8, 4)), Mask4)
        v2 == BitAnd(BitOr(v4, Shl(v4, 2)), Mask2)
    IN  BitAnd(BitOr(v2, Shl(v2, 1)), Mask1)

\* morton with its arguments exchanged.
mortonSwapped(x, y) == BitOr(Spread(Bits(y)), Shl(Spread(Bits(x)), 1))

morton(x, y) == BitOr(Spread(Bits(x)), Shl(Spread(Bits(y)), 1))

\* morton over the coordinates of the images modelled, computed once.
TableMax == 11
MortonTable ==
    [x \in 0..TableMax |-> [y \in 0..TableMax |-> ToNat(morton(x, y))]]

\* morton's result as an index into a list.
mortonIndex(x, y) ==
    IF x <= TableMax /\ y <= TableMax THEN MortonTable[x][y] ELSE ToNat(morton(x, y))

(***************************************************************************)
(* The colour decoders.  int (255*f/31.0) truncates the quotient; no       *)
(* quotient is close enough to an integer for the float to change it.      *)
(***************************************************************************)
Shr(c, n)  == c \div (2 ^ n)
And31(c)   == c % 32
And63(c)   == c % 64
And15(c)   == c % 16
Scale(f, max) == (255 * f) \div max

\* unpack1555 with the alpha bit scaled like a five bit field.
unpack1555AlphaScaled(c) ==
    <<Scale(And31(Shr(c, 10)), 31), Scale(And31(Shr(c, 5)), 31),
      Scale(And31(c), 31), Scale(And31(Shr(c, 15)), 31)>>

unpack1555(c) ==
    <<Scale(And31(Shr(c, 10)), 31), Scale(And31(Shr(c, 5)), 31),
      Scale(And31(c), 31), 255 * And31(Shr(c, 15))>>

unpack4444(c) ==
    <<Scale(And15(Shr(c, 8)), 15), Scale(And15(Shr(c, 4)), 15),
      Scale(And15(c), 15), Scale(And15(Shr(c, 12)), 15)>>

unpack565(c) ==
    <<Scale(And31(Shr(c, 11)), 31), Scale(And63(Shr(c, 5)), 63),
      Scale(And31(c), 31)>>

Decoders == {"unpack1555", "unpack4444", "unpack565"}

Decode(d, c) ==
    CASE d = "unpack1555" -> unpack1555(c)
      [] d = "unpack4444" -> unpack4444(c)
      [] d = "unpack565"  -> unpack565(c)


(***************************************************************************)
(* Python values: a call returns a value or raises an exception.           *)
(***************************************************************************)
Return(v) == [exc |-> "none", val |-> v]
Raise(e)  == [exc |-> e, val |-> None]

Min(a, b) == IF a < b THEN a ELSE b

\* An index of a slice, as Python clamps it to 0..n (a negative one counts from the end).
SliceIndex(i, n) == IF i < 0 THEN (IF i + n < 0 THEN 0 ELSE i + n) ELSE Min(i, n)

\* s[a:b]
PySlice(s, a, b) ==
    LET lo == SliceIndex(a, Len(s))
        hi == SliceIndex(b, Len(s))
    IN  IF lo >= hi THEN <<>> ELSE SubSeq(s, lo + 1, hi)

\* The k-th (from 0) little-endian 16-bit word of a byte string: struct's '<H'.
WordAt(bytes, k) == bytes[2 * k + 1] + 256 * bytes[2 * k + 2]

\* unpack (f'<{n}H', bytes), for bytes of length 2*n
Words(bytes, n) == [k \in 1..n |-> WordAt(bytes, k - 1)]

\* A row: what row.extend (...) has built from the pixels ss, each of as many channels.
Concat(ss) ==
    IF ss = <<>> THEN <<>>
    ELSE LET c == Len(ss[1])
         IN  [n \in 1..(c * Len(ss)) |-> ss[((n - 1) \div c) + 1][((n - 1) % c) + 1]]

CODEBOOK_SIZE == 2048
MAX_WIDTH  == 524288
MAX_HEIGHT == 524288

\* A slip: the largest mipmap taken from the front of the payload.
LargestMipFromStart(rawp, base) == PySlice(rawp, 0, base)

\* raw[size - base : size]
LargestMip(rawp, base) == PySlice(rawp, Len(rawp) - base, Len(rawp))

(***************************************************************************)
(* vq_decode (raw, decoder), for the width w and the height h it closes    *)
(* over.                                                                   *)
(***************************************************************************)
\* The indices vq_decode looks up in lut: morton (i, j) over the grid of blocks.
VqReads(w, h) ==
    {mortonIndex(i, j) : i \in 0..((h \div 2) - 1), j \in 0..((w \div 2) - 1)}

\* A slip: the four entries taken row by row.
VqBlockRow0Sequential(book, entry, d) ==
    Decode(d, book[entry + 1]) \o Decode(d, book[entry + 2])

\* The two rows of a block, built as the four extends of lines 139 to 142 build them.
\* book[k], the book a TLA+ sequence indexed from 1
BookAt(book, k) == book[k + 1]

VqBlockRow0(book, entry, d) ==
    Decode(d, BookAt(book, entry + 0)) \o Decode(d, BookAt(book, entry + 2))
VqBlockRow1(book, entry, d) ==
    Decode(d, BookAt(book, entry + 1)) \o Decode(d, BookAt(book, entry + 3))

vq_decode(w, h, rawp, d) ==
    LET tmp  == PySlice(rawp, 0, CODEBOOK_SIZE)
        base == (w * h) \div 4
        lut  == LargestMip(rawp, base)
    IN  IF Len(tmp) # CODEBOOK_SIZE THEN Raise("struct.error")
        ELSE IF \E n \in VqReads(w, h) : n >= Len(lut) THEN Raise("IndexError")
        ELSE
          LET book == Words(tmp, 1024)
              entry(i, j) == 4 * lut[mortonIndex(i, j) + 1]
              row0(i) == Concat([j \in 1..(w \div 2) |->
                                    VqBlockRow0(book, entry(i, j - 1), d)])
              row1(i) == Concat([j \in 1..(w \div 2) |->
                                    VqBlockRow1(book, entry(i, j - 1), d)])
          IN  Return([r \in 1..(2 * (h \div 2)) |->
                         IF r % 2 = 1 THEN row0((r - 1) \div 2)
                                      ELSE row1((r - 1) \div 2)])

(***************************************************************************)
(* morton_decode (raw, decoder)                                            *)
(***************************************************************************)
\* The indices morton_decode reads in data: morton (j, i) over the image.
TiledReads(w, h) == {mortonIndex(j, i) : i \in 0..(h - 1), j \in 0..(w - 1)}

\* data += bytes (squared - len (data)), when width != height
Padded(words, w, h) ==
    LET squared == IF w < h THEN h * h ELSE w * w
    IN  IF w # h THEN words \o [k \in 1..(squared - Len(words)) |-> 0] ELSE words

morton_decode(w, h, rawp, d) ==
    LET base == w * h * 2
        mip  == LargestMip(rawp, base)
    IN  IF Len(mip) # base THEN Raise("struct.error")
        ELSE
          LET datap == Padded(Words(mip, w * h), w, h)
          IN  IF \E n \in TiledReads(w, h) : n >= Len(datap) THEN Raise("IndexError")
              ELSE Return([i \in 1..h |->
                     Concat([j \in 1..w |->
                        Decode(d, datap[mortonIndex(j - 1, i - 1) + 1])])])

(***************************************************************************)
(* linear_decode (raw, decoder)                                            *)
(***************************************************************************)
linear_decode(w, h, rawp, d) ==
    LET base == w * h * 2
        mip  == LargestMip(rawp, base)
    IN  IF Len(mip) # base THEN Raise("struct.error")
        ELSE
          LET datap == Words(mip, w * h)
          IN  Return([i \in 1..h |->
                 Concat([j \in 1..w |-> Decode(d, datap[(i - 1) * w + (j - 1) + 1])])])

(***************************************************************************)
(* pvr_decode (data, total, px, fmt, width, height)                        *)
(***************************************************************************)
ARGB1555 == 0
RGB565   == 1
ARGB4444 == 2
SQUARE_TWIDDLED        == 1
SQUARE_TWIDDLED_MIPMAP == 2
VQ                     == 3
VQ_MIPMAP              == 4
RECTANGULAR_TWIDDLED   == 13
NTypes == 7
NFmts  == 19

\* TYPES[px] and FMTS[fmt] of line 75: a list index, negative ones counting from the end.
InList(i, n) == -n <= i /\ i < n

\* The three branches on fmt, the same under each pixel encoding.
Layout(payload, f, w, h, d) ==
    IF f = SQUARE_TWIDDLED \/ f = SQUARE_TWIDDLED_MIPMAP \/ f = RECTANGULAR_TWIDDLED
    THEN morton_decode(w, h, payload, d)
    ELSE IF f = VQ \/ f = VQ_MIPMAP
    THEN vq_decode(w, h, payload, d)
    ELSE linear_decode(w, h, payload, d)

\* The pair a decoder's matrix is returned in; an exception passes through.
WithMode(r, mode) == IF r.exc = "none" THEN Return(<<r.val, mode>>) ELSE r

pvr_decode(payload, total, p, f, w, h) ==
    IF ~(InList(p, NTypes) /\ InList(f, NFmts)) THEN Raise("IndexError")
    ELSE IF ~(w <= MAX_WIDTH) \/ ~(h <= MAX_HEIGHT) THEN Raise("Exception")
    ELSE IF p = ARGB1555 THEN WithMode(Layout(payload, f, w, h, "unpack1555"), "RGBA")
    ELSE IF p = ARGB4444 THEN WithMode(Layout(payload, f, w, h, "unpack4444"), "RGBA")
    ELSE IF p = RGB565   THEN WithMode(Layout(payload, f, w, h, "unpack565"), "RGB")
    ELSE Return(<<"Unsupported encoding", "ERROR">>)


(***************************************************************************)
(* main (file)                                                             *)
(***************************************************************************)
GBIX == <<71, 66, 73, 88>>
PVRT == <<80, 86, 82, 84>>

\* f.read (n) at position p
ReadBytes(f, p, n) == SubSeq(f, p + 1, Min(p + n, Len(f)))

\* bytes.decode ('ascii') raises UnicodeDecodeError on a byte above 127
IsAscii(bs) == \A k \in 1..Len(bs) : bs[k] < 128

\* struct's 'b', 'H' and 'I', little-endian
SByte(b)     == IF b >= 128 THEN b - 256 ELSE b
U16(bs, off) == bs[off + 1] + 256 * bs[off + 2]
U32(bs, off) == bs[off + 1] + 256 * bs[off + 2] + 65536 * bs[off + 3]
                  + 16777216 * bs[off + 4]

\* The fields of the unpacked header.
Size(h)   == h[1]
Px(h)     == h[2]
Fmt(h)    == h[3]
Dummy(h)  == h[4]
Width(h)  == h[5]
Height(h) == h[6]

\* unpack ('<IbbHHH', bytes), for bytes of length 12
UnpackHeader(bs) ==
    <<U32(bs, 0), SByte(bs[5]), SByte(bs[6]), U16(bs, 6), U16(bs, 8), U16(bs, 10)>>

MainIdle ==
    /\ file = <<>> /\ pos = 0 /\ magic = <<>> /\ tag = <<>>
    /\ header = <<>> /\ data = <<>> /\ decoded = <<>>
    /\ sink = <<>> /\ outcome = "running"

MortonIdle == mx = 0 /\ my = 0 /\ code = None
UnpackIdle == colour = 0 /\ rgba = None
DecIdle    ==
    /\ width = 0 /\ height = 0
    /\ raw = <<>> /\ raw2 = <<>> /\ decoder = None /\ out = None /\ out2 = None

\* main ends: by an exception, or by its return at line 236
Exit(how) ==
    /\ pc' = "done"
    /\ outcome' = how

\* The else branch lost: the position stays behind the four bytes read.
AfterMagicNoSeek(m, p, n) == IF m = GBIX THEN Min(p + 4 + 12, n) ELSE Min(p + 4, n)

\* The position after line 229 has read m at p: f.read (12) past a GBIX, else f.seek (0).
AfterMagic(m, p, n) == IF m = GBIX THEN Min(p + 4 + 12, n) ELSE 0

\* Lines 229 to 232: the optional GBIX block.
ReadMagic ==
    /\ pc = "start"
    /\ LET m == ReadBytes(file, pos, 4)
       IN  /\ magic' = m
           /\ IF ~IsAscii(m)
              THEN Exit("UnicodeDecodeError") /\ pos' = pos + Len(m)
              ELSE /\ pc' = "tag"
                   /\ outcome' = outcome
                   /\ pos' = AfterMagic(m, pos, Len(file))
    /\ UNCHANGED <<file, tag, header, data, decoded, sink>>
    /\ UNCHANGED <<mortonVars, unpackVars, decVars>>

\* Lines 234 to 236: the texture tag.
ReadTag ==
    /\ pc = "tag"
    /\ LET t == ReadBytes(file, pos, 4)
       IN  /\ tag' = t
           /\ pos' = pos + Len(t)
           /\ IF ~IsAscii(t) THEN Exit("UnicodeDecodeError")
              ELSE IF t # PVRT THEN Exit("not PVRT")
              ELSE pc' = "header" /\ outcome' = outcome
    /\ UNCHANGED <<file, magic, header, data, decoded, sink>>
    /\ UNCHANGED <<mortonVars, unpackVars, decVars>>

\* Line 238: size, px, fmt, dummy, width, height = unpack ('<IbbHHH', f.read (12))
ReadHeader ==
    /\ pc = "header"
    /\ LET h == ReadBytes(file, pos, 12)
       IN  /\ pos' = pos + Len(h)
           /\ IF Len(h) # 12
              THEN Exit("struct.error") /\ header' = header
              ELSE /\ header' = UnpackHeader(h)
                   /\ pc' = "decode"
                   /\ outcome' = outcome
    /\ UNCHANGED <<file, magic, tag, data, decoded, sink>>
    /\ UNCHANGED <<mortonVars, unpackVars, decVars>>

\* Line 241: pixels, status = pvr_decode (f.read (), size, px, fmt, width, height)
CallPvrDecode ==
    /\ pc = "decode"
    /\ LET payload == ReadBytes(file, pos, Len(file))
           r == pvr_decode(payload, Size(header), Px(header), Fmt(header),
                           Width(header), Height(header))
       IN  /\ data' = payload
           /\ pos' = Len(file)
           /\ IF r.exc # "none"
              THEN Exit(r.exc) /\ decoded' = decoded
              ELSE /\ decoded' = r.val
                   /\ pc' = "save"
                   /\ outcome' = outcome
    /\ UNCHANGED <<file, magic, tag, header, sink>>
    /\ UNCHANGED <<mortonVars, unpackVars, decVars>>

\* Line 242: png.from_array (pixels, status).save (base + '.png')
SavePng ==
    /\ pc = "save"
    /\ sink' = Append(sink, decoded)
    /\ Exit("png called")
    /\ UNCHANGED <<file, pos, magic, tag, header, data, decoded>>
    /\ UNCHANGED <<mortonVars, unpackVars, decVars>>

(***************************************************************************)
(* The files main is run on.                                               *)
(***************************************************************************)
Pattern(n) == [k \in 1..n |-> (k * 37) % 256]

MetaBlocks == {[k \in 1..12 |-> 0], PVRT \o [k \in 1..8 |-> 1]}
Leading    == {<<>>} \cup {GBIX \o m : m \in MetaBlocks}
BadTags    == {<<88, 88, 88, 88>>, GBIX, <<80, 86, 82, 200>>}
PxBytes    == {0, 1, 2, 4, 7, 255}
FmtBytes   == {1, 3, 9, 19}
HdrWidths  == {1, 2, 4}
HdrHeights == {1, 2}
PayloadLengths == {0, 8, 11, 2049}

HeaderBytes(p, f, w, h) ==
    <<20, 3, 0, 0, p, f, 7, 1, w % 256, w \div 256, h % 256, h \div 256>>

Truncated == {<<>>, <<80, 86>>, GBIX \o <<1, 2>>, PVRT \o <<1, 2, 3>>}

\* Files whose texture tag is not PVRT: the header after it is a good one.
NotTextures ==
    {l \o t \o HeaderBytes(ARGB1555, SQUARE_TWIDDLED, 2, 2) \o Pattern(8) :
        l \in Leading, t \in BadTags}

Textures ==
    {l \o PVRT \o HeaderBytes(p, f, w, h) \o Pattern(n) :
        l \in Leading, p \in PxBytes, f \in FmtBytes,
        w \in HdrWidths, h \in HdrHeights, n \in PayloadLengths}

\* Textures whose width takes both bytes of its field, in the linear layout.
WideTextures ==
    {l \o PVRT \o HeaderBytes(p, 9, 258, 1) \o Pattern(n) :
        l \in Leading, p \in {ARGB1555, 4}, n \in {516, 519}}

Files == Truncated \cup NotTextures \cup Textures \cup WideTextures

Init ==
    /\ pc = "start"
    /\ file \in Files
    /\ pos = 0 /\ magic = <<>> /\ tag = <<>>
    /\ header = <<>> /\ data = <<>> /\ decoded = <<>>
    /\ sink = <<>> /\ outcome = "running"
    /\ MortonIdle /\ UnpackIdle /\ DecIdle

Next == ReadMagic \/ ReadTag \/ ReadHeader \/ CallPvrDecode \/ SavePng

Spec == Init /\ [][Next]_vars

(***************************************************************************)
(* morton (x, y) on its own.                                               *)
(***************************************************************************)
LogN == 3
GridN == 2 ^ LogN
HighCoords == {255, 256, 21845, 32768, 43690, 65535}
Coords == (0..(GridN - 1)) \cup HighCoords

InitMorton ==
    /\ pc = "call"
    /\ mx \in Coords /\ my \in Coords /\ code = None
    /\ MainIdle /\ UnpackIdle /\ DecIdle

CallMorton ==
    /\ pc = "call"
    /\ code' = morton(mx, my)
    /\ pc' = "return"
    /\ UNCHANGED <<mx, my, mainVars, unpackVars, decVars>>

SpecMorton == InitMorton /\ [][CallMorton]_vars

(***************************************************************************)
(* The colour decoders on their own, over every 16-bit word.               *)
(***************************************************************************)
InitUnpack ==
    /\ pc = "call"
    /\ colour \in 0..65535 /\ rgba = None
    /\ MainIdle /\ MortonIdle /\ DecIdle

CallUnpack(d) ==
    /\ pc = "call"
    /\ rgba' = Decode(d, colour)
    /\ decoder' = d
    /\ pc' = "return"
    /\ UNCHANGED <<colour, width, height, raw, raw2, out, out2, mainVars, mortonVars>>

CallUnpack1555 == CallUnpack("unpack1555")
CallUnpack4444 == CallUnpack("unpack4444")
CallUnpack565  == CallUnpack("unpack565")

NextUnpack == CallUnpack1555 \/ CallUnpack4444 \/ CallUnpack565

SpecUnpack == InitUnpack /\ [][NextUnpack]_vars

(***************************************************************************)
(* vq_decode on its own: a codebook, a pad, and the index table of the     *)
(* largest mipmap.                                                         *)
(***************************************************************************)
MaxVqDim == 6
MaxPad   == 1
MaxSeed  == 2

Codebook(s) == [p \in 1..CODEBOOK_SIZE |-> ((p - 1) * 37 + s * 11) % 256]

\* Index bytes 255, 170, 85 and 0 in turn: 255 selects the last four entries of the book.
IndexTable(n, s) == [k \in 1..n |-> 255 - 85 * ((k + s) % 4)]

VqPayloads(w, h) ==
    {Codebook(s) \o [k \in 1..pad |-> 0] \o IndexTable((w * h) \div 4, s) :
        s \in 1..MaxSeed, pad \in 0..MaxPad}
    \cup {SubSeq(Codebook(1), 1, CODEBOOK_SIZE - 1)}

InitVQ ==
    /\ pc = "call"
    /\ width \in 0..MaxVqDim /\ height \in 0..MaxVqDim
    /\ decoder \in Decoders
    /\ raw \in VqPayloads(width, height)
    /\ raw2 = <<>> /\ out = None /\ out2 = None
    /\ MainIdle /\ MortonIdle /\ UnpackIdle

CallVqDecode ==
    /\ pc = "call"
    /\ out' = vq_decode(width, height, raw, decoder)
    /\ pc' = "return"
    /\ UNCHANGED <<width, height, raw, raw2, decoder, out2>>
    /\ UNCHANGED <<mainVars, mortonVars, unpackVars>>

SpecVQ == InitVQ /\ [][CallVqDecode]_vars

(***************************************************************************)
(* morton_decode and linear_decode on their own, each run on two payloads: *)
(* smaller mipmaps or padding, then the block of width*height words.       *)
(***************************************************************************)
MaxDim    == 4
MaxPrefix == 2

Block(w, h, s) == [k \in 1..(2 * w * h) |-> (k * 37 + s * 11) % 256]

Prefixes == {[k \in 1..n |-> fill] : n \in 0..MaxPrefix, fill \in {0, 255}}

\* The last one is a byte short of the block.
TiledPayloads(w, h) ==
    {p \o Block(w, h, s) : p \in Prefixes, s \in 1..MaxSeed}
    \cup {SubSeq(Block(w, h, 1), 2, 2 * w * h)}

InitTiled ==
    /\ pc = "call"
    /\ width \in 0..MaxDim /\ height \in 0..MaxDim
    /\ decoder \in Decoders
    /\ raw \in TiledPayloads(width, height)
    /\ raw2 \in TiledPayloads(width, height)
    /\ out = None /\ out2 = None
    /\ MainIdle /\ MortonIdle /\ UnpackIdle

CallMortonDecode ==
    /\ pc = "call"
    /\ out'  = morton_decode(width, height, raw, decoder)
    /\ out2' = morton_decode(width, height, raw2, decoder)
    /\ pc' = "morton_decode"
    /\ UNCHANGED <<width, height, raw, raw2, decoder>>
    /\ UNCHANGED <<mainVars, mortonVars, unpackVars>>

CallLinearDecode ==
    /\ pc = "call"
    /\ out'  = linear_decode(width, height, raw, decoder)
    /\ out2' = linear_decode(width, height, raw2, decoder)
    /\ pc' = "linear_decode"
    /\ UNCHANGED <<width, height, raw, raw2, decoder>>
    /\ UNCHANGED <<mainVars, mortonVars, unpackVars>>

NextTiled == CallMortonDecode \/ CallLinearDecode

SpecTiled == InitTiled /\ [][NextTiled]_vars

(***************************************************************************)
(*                              The claims                                 *)
(***************************************************************************)
BitOf(n, k) == (n \div (2 ^ k)) % 2

\* The images of the grids [0, 2^m) x [0, 2^m) under morton, m up to LogN.
MortonImages ==
    [m \in 0..LogN |-> {mortonIndex(x, y) : x, y \in 0..((2 ^ m) - 1)}]

\* C1: morton (x, y) places bit k of x at bit 2k and bit k of y at bit 2k+1 of its
\* result, for k below 16; so on every grid [0,N) x [0,N), N a power of two (here up
\* to 2^LogN), it is one-to-one and onto [0, N*N); and morton (0,0) = 0,
\* morton (1,0) = 1, morton (0,1) = 2, morton (1,1) = 3, morton (3,3) = 15.
C1_MortonInterleaves ==
    pc = "return" =>
      /\ \A k \in 0..15 : code[2 * k] = BitOf(mx, k) /\ code[2 * k + 1] = BitOf(my, k)
      /\ \A m \in 0..LogN :
            (mx < 2 ^ m /\ my < 2 ^ m) =>
               /\ code[31] = 0 /\ ToNat(code) < 4 ^ m
               /\ \A x, y \in 0..((2 ^ m) - 1) :
                     mortonIndex(x, y) = ToNat(code) => (x = mx /\ y = my)
      /\ \A m \in 0..LogN : MortonImages[m] = 0..((4 ^ m) - 1)
      /\ (mx = 0 /\ my = 0) => ToNat(code) = 0
      /\ (mx = 1 /\ my = 0) => ToNat(code) = 1
      /\ (mx = 0 /\ my = 1) => ToNat(code) = 2
      /\ (mx = 1 /\ my = 1) => ToNat(code) = 3
      /\ (mx = 3 /\ my = 3) => ToNat(code) = 15

\* morton has returned for the largest x and a y with bit 15 set: bits 30 and 31 are set.
C1_Witness ==
    pc = "return" /\ mx = 65535 /\ my = 43690 /\ code[30] = 1 /\ code[31] = 1

\* The fields of an ARGB1555 word, by division.
AlphaBit(c) == c \div 32768
RedOf(c)    == (c % 32768) \div 1024
GreenOf(c)  == (c % 1024) \div 32
BlueOf(c)   == c % 32

\* v is num/den rounded to the nearest integer (no half occurs with den = 31).
IsRoundOf(v, num, den) == 2 * den * v - den <= 2 * num /\ 2 * num < 2 * den * v + den
\* v is num/den truncated.
IsFloorOf(v, num, den) == den * v <= num /\ num < den * (v + 1)

\* C5 as stated: unpack1555 returns (R, G, B, A), A 255 if bit 15 is set and else 0,
\* and R, G, B each round (255*field/31), rounded to the nearest integer.
C5_Unpack1555Rounds ==
    (pc = "return" /\ decoder = "unpack1555") =>
      /\ Len(rgba) = 4
      /\ IsRoundOf(rgba[1], 255 * RedOf(colour), 31)
      /\ IsRoundOf(rgba[2], 255 * GreenOf(colour), 31)
      /\ IsRoundOf(rgba[3], 255 * BlueOf(colour), 31)
      /\ rgba[4] = IF AlphaBit(colour) = 1 THEN 255 ELSE 0

\* C5 amended: unpack1555 returns (R, G, B, A), A 255 if bit 15 is set and else 0,
\* and R, G, B each 255*field/31 truncated to an integer.
C5_Unpack1555Truncates ==
    (pc = "return" /\ decoder = "unpack1555") =>
      /\ Len(rgba) = 4
      /\ IsFloorOf(rgba[1], 255 * RedOf(colour), 31)
      /\ IsFloorOf(rgba[2], 255 * GreenOf(colour), 31)
      /\ IsFloorOf(rgba[3], 255 * BlueOf(colour), 31)
      /\ rgba[4] = IF AlphaBit(colour) = 1 THEN 255 ELSE 0

\* unpack1555 has returned for alpha set and red 3: 255*3/31 = 24.68 came out as 24.
C5_Witness ==
    /\ pc = "return" /\ decoder = "unpack1555"
    /\ colour = 32768 + 3 * 1024
    /\ rgba = <<24, 0, 0, 255>>

\* C6: for a pixel encoding other than ARGB1555, RGB565 and ARGB4444, the dimensions
\* within bounds, pvr_decode fails and returns no pixel matrix, and nothing is handed
\* to png.from_array.
C6_UnsupportedNeverSaved ==
    (/\ header # <<>>
     /\ Px(header) \notin {ARGB1555, RGB565, ARGB4444}
     /\ Width(header) <= MAX_WIDTH /\ Height(header) <= MAX_HEIGHT)
    => (sink = <<>> /\ outcome # "png called")

\* The file, read without main: where the texture tag is, and whether it is PVRT.
HasGbix   == Len(file) >= 4 /\ SubSeq(file, 1, 4) = GBIX
TagOffset == IF HasGbix THEN 16 ELSE 0
IsTexture ==
    Len(file) >= TagOffset + 4 /\ SubSeq(file, TagOffset + 1, TagOffset + 4) = PVRT
ByteAt(off) == file[off + 1]
Signed(b)   == IF b > 127 THEN b - 256 ELSE b

\* C9: past a first tag GBIX the next 12 bytes are skipped and the texture tag is
\* read at offset 16, else at offset 0; if that tag is not PVRT main fails without
\* parsing the header, calling pvr_decode or the png sink; otherwise size, px, fmt,
\* dummy, width, height are read from the next 12 bytes in that order, and the
\* payload is everything after them.
C9_HeaderReader ==
    /\ pc = "tag" => pos = Min(TagOffset, Len(file))
    /\ (pc \notin {"start", "tag"} /\ Len(tag) = 4) =>
          tag = SubSeq(file, TagOffset + 1, TagOffset + 4)
    /\ ~IsTexture =>
          /\ pc \in {"start", "tag", "done"}
          /\ pc = "done" => outcome \in {"not PVRT", "UnicodeDecodeError"}
          /\ header = <<>> /\ decoded = <<>> /\ sink = <<>>
    /\ IsTexture =>
          /\ pc = "header" => pos = TagOffset + 4
          /\ (pc = "done" /\ Len(file) >= TagOffset + 16) => header # <<>>
          /\ header # <<>> =>
                /\ Len(header) = 6
                /\ Size(header) = ByteAt(TagOffset + 4) + 256 * ByteAt(TagOffset + 5)
                                   + 65536 * ByteAt(TagOffset + 6)
                                   + 16777216 * ByteAt(TagOffset + 7)
                /\ Px(header)     = Signed(ByteAt(TagOffset + 8))
                /\ Fmt(header)    = Signed(ByteAt(TagOffset + 9))
                /\ Dummy(header)  = ByteAt(TagOffset + 10) + 256 * ByteAt(TagOffset + 11)
                /\ Width(header)  = ByteAt(TagOffset + 12) + 256 * ByteAt(TagOffset + 13)
                /\ Height(header) = ByteAt(TagOffset + 14) + 256 * ByteAt(TagOffset + 15)
                /\ pc \in {"save", "done"} =>
                      data = SubSeq(file, TagOffset + 17, Len(file))

\* A file whose GBIX block itself begins with PVRT has been read and handed to png: the
\* header is the one at offset 20, its width in both bytes of the field.
C9_Witness ==
    /\ pc = "done" /\ outcome = "png called"
    /\ HasGbix /\ SubSeq(file, 5, 8) = PVRT
    /\ header = <<788, 0, 9, 263, 258, 1>>
    /\ Len(data) = 519

(***************************************************************************)
(* The claims about vq_decode, read off the payload raw without the model  *)
(* of the decoder.                                                         *)
(***************************************************************************)
Channels       == Len(Decode(decoder, 0))
PixelOf(row, k) == SubSeq(row, Channels * k + 1, Channels * k + Channels)
BookWord(k)    == raw[2 * k + 1] + 256 * raw[2 * k + 2]
LutLen         == (width * height) \div 4
LutByte(n)     == raw[Len(raw) - LutLen + n + 1]
EntryOf(i, j)  == 4 * LutByte(mortonIndex(i, j))
BookPixel(k)   == Decode(decoder, BookWord(k))
BlockGrid      == (0..((height \div 2) - 1)) \X (0..((width \div 2) - 1))

\* C2 as stated: for every block (i, j), entry = 4*lut[morton (i, j)], book entries
\* entry+0 and entry+1 are the left and right pixels of output row 2i, and entries
\* entry+2 and entry+3 the left and right pixels of output row 2i+1.
C2_VqBlockRowMajor ==
    (pc = "return" /\ out.exc = "none") =>
      \A b \in BlockGrid :
        LET i == b[1]
            j == b[2]
        IN  /\ PixelOf(out.val[2 * i + 1], 2 * j)     = BookPixel(EntryOf(i, j) + 0)
            /\ PixelOf(out.val[2 * i + 1], 2 * j + 1) = BookPixel(EntryOf(i, j) + 1)
            /\ PixelOf(out.val[2 * i + 2], 2 * j)     = BookPixel(EntryOf(i, j) + 2)
            /\ PixelOf(out.val[2 * i + 2], 2 * j + 1) = BookPixel(EntryOf(i, j) + 3)

\* C2 amended: for every block (i, j), entry = 4*lut[morton (i, j)], book entries
\* entry+0 and entry+2 are the left and right pixels of output row 2i, and entries
\* entry+1 and entry+3 the left and right pixels of output row 2i+1.
C2_VqBlockColumnMajor ==
    (pc = "return" /\ out.exc = "none") =>
      \A b \in BlockGrid :
        LET i == b[1]
            j == b[2]
        IN  /\ PixelOf(out.val[2 * i + 1], 2 * j)     = BookPixel(EntryOf(i, j) + 0)
            /\ PixelOf(out.val[2 * i + 1], 2 * j + 1) = BookPixel(EntryOf(i, j) + 2)
            /\ PixelOf(out.val[2 * i + 2], 2 * j)     = BookPixel(EntryOf(i, j) + 1)
            /\ PixelOf(out.val[2 * i + 2], 2 * j + 1) = BookPixel(EntryOf(i, j) + 3)

\* vq_decode has returned a 4x4 image whose block (1, 1) has entries +1 and +2 of
\* different colours.
C2_Witness ==
    /\ pc = "return" /\ out.exc = "none"
    /\ width = 4 /\ height = 4 /\ Len(out.val) = 4
    /\ BookPixel(EntryOf(1, 1) + 1) # BookPixel(EntryOf(1, 1) + 2)
    /\ PixelOf(out.val[3], 3) = BookPixel(EntryOf(1, 1) + 2)

\* C7: vq_decode fails (the claim's DimensionError), producing no pixel matrix,
\* whenever width or height is not both positive and even.
C7_VqRejectsOddOrZero ==
    (/\ pc = "return"
     /\ (width <= 0 \/ height <= 0 \/ width % 2 # 0 \/ height % 2 # 0))
    => out.exc # "none"

\* C10: for even positive width and height and a payload of at least
\* 2048 + width*height/4 bytes, every lookup morton (i, j) of vq_decode is below
\* width*height/4, every codebook access entry .. entry+3 is below 1024, and so
\* vq_decode raises no IndexError.
C10_VqReadsInBounds ==
    (/\ pc = "return"
     /\ width > 0 /\ height > 0 /\ width % 2 = 0 /\ height % 2 = 0
     /\ Len(raw) >= CODEBOOK_SIZE + LutLen)
    => /\ \A b \in BlockGrid : mortonIndex(b[1], b[2]) < LutLen
       /\ \A b \in BlockGrid :
             mortonIndex(b[1], b[2]) < LutLen => EntryOf(b[1], b[2]) + 3 < 1024
       /\ out.exc # "IndexError"

(***************************************************************************)
(* The claims about morton_decode and linear_decode.                       *)
(***************************************************************************)
ByMorton   == pc = "morton_decode"
ByLinear   == pc = "linear_decode"
BlockBytes == width * height * 2
ImageGrid  == (0..(height - 1)) \X (0..(width - 1))

\* The last width*height*2 bytes of a payload at least that long.
TrailingBlock(r) == SubSeq(r, Len(r) - BlockBytes + 1, Len(r))

\* The length of morton_decode's word sequence, padded when width != height.
PaddedLen ==
    IF width = height THEN width * height
    ELSE IF width < height THEN height * height ELSE width * width

\* C3: for width and height of at least 1 and a payload of at least width*height*2
\* bytes, morton_decode reads no index outside its (padded) word sequence and
\* returns exactly height rows of exactly width pixels.
C3_TiledReadsInBounds ==
    (ByMorton /\ width >= 1 /\ height >= 1 /\ Len(raw) >= BlockBytes) =>
      /\ \A c \in ImageGrid : mortonIndex(c[2], c[1]) < PaddedLen
      /\ out.exc = "none"
      /\ Len(out.val) = height
      /\ \A i \in 1..height : Len(out.val[i]) = width * Channels

\* C4: in morton_decode with width != height no pixel comes from a padding word:
\* every index morton (j, i) read for (i, j) in the image is below width*height.
C4_TiledNeverReadsPadding ==
    (ByMorton /\ width # height /\ out.exc = "none") =>
      \A c \in ImageGrid : mortonIndex(c[2], c[1]) < width * height

\* C8: two payloads of at least width*height*2 bytes whose last width*height*2 bytes
\* are equal decode to the same result, under morton_decode and under linear_decode,
\* whatever the bytes before; the words are those at offset
\* len (raw) - width*height*2, as linear_decode's pixel (i, j) shows.
C8_OnlyTrailingBlock ==
    /\ (/\ ByMorton \/ ByLinear
        /\ Len(raw) >= BlockBytes /\ Len(raw2) >= BlockBytes
        /\ TrailingBlock(raw) = TrailingBlock(raw2))
       => out = out2
    /\ (ByLinear /\ Len(raw) >= BlockBytes) =>
          /\ out.exc = "none"
          /\ \A c \in ImageGrid :
               LET k == c[1] * width + c[2]
                   at == Len(raw) - BlockBytes + 2 * k
               IN  PixelOf(out.val[c[1] + 1], c[2]) =
                      Decode(decoder, raw[at + 1] + 256 * raw[at + 2])

\* morton_decode has returned the same 2x2 image for two payloads of different
\* lengths and different leading bytes.
C8_Witness ==
    /\ ByMorton /\ width = 2 /\ height = 2
    /\ Len(raw) = BlockBytes + 2 /\ Len(raw2) = BlockBytes + 1
    /\ raw[1] # raw2[1]
    /\ TrailingBlock(raw) = TrailingBlock(raw2)
    /\ out.exc = "none" /\ out = out2

=============================================================================
